---- MODULE Spec2Model ----
(***************************************************************************)
(* A model of the "productos" CRUD service (src/app.py, Flask over         *)
(* PostgreSQL) and of the "personas" service (src/apirest_python-main/     *)
(* app.py, Flask over SQLite).                                             *)
(*                                                                         *)
(* Numbers that travel in JSON are kept in thousandths (1005 is 1.005), a  *)
(* stored DECIMAL(10,2) in hundredths (101 is 1.01), so that the rounding  *)
(* of the column is visible.                                               *)
(***************************************************************************)
EXTENDS Integers, Sequences, FiniteSets, TLC

VARIABLES
    productos,          \* the rows of table productos (a set of records)
    productos_id_seq,   \* last value drawn from the SERIAL sequence of productos.id
    now,                \* CURRENT_TIMESTAMP as the latest INSERT read it
    writes,             \* history: how many requests have changed the store
    creados,            \* history: the ids that POST /productos has returned, in order
    request,            \* the request that has just been handled, or Idle
    response,           \* its response
    personas,           \* the rows of table personas
    personas_seq,       \* sqlite_sequence of personas: the largest id ever given
    pc,                 \* per thread: where its handler stands
    req,                \* per thread: the request it is handling
    persona,            \* per thread: the row its SELECT returned
    resp,               \* per thread: the status of its response
    served,             \* history: how many requests to /personas have been taken
    step,               \* where the request that is walked through get_db_cursor stands
    conn,               \* its connection to the store: "none", "open" or "closed"
    txn,                \* table productos as its transaction sees it
    before,             \* history: the committed table when it was taken
    calls,              \* history: the calls it has made on the connection, in order
    raised,             \* an exception is on its way to the handler's except clause
    pending,            \* the response the body of the with block has returned
    pconn,              \* per thread of the personas server: its connection
    leaked              \* connections left open by requests that have been answered

prodvars == <<productos, productos_id_seq, now, writes, creados, request, response>>
pvars == <<personas, personas_seq, pc, req, persona, resp, served>>
txvars == <<step, conn, txn, before, calls, raised, pending>>
connvars == <<pconn, leaked>>
fvars == <<txvars, connvars>>
vars == <<prodvars, pvars, fvars>>

---------------------------------------------------------------------------
(* Bounds of the exploration *)

MaxSeq == 6      \* POST /productos and init_db are not taken once the sequence is there
MaxNow == 1      \* the clock stops here
MaxWrites == 1   \* requests that change the store in a run of Spec
DeepWrites == 4  \* requests that change the store in a run of SpecDeep
NumThreads == 2  \* threads of the personas server that handle requests at once
MaxServed == 4   \* requests to /personas in a run of SpecPersonas
TxWrites == 2    \* commits that change the store in a run of SpecTx

---------------------------------------------------------------------------
(* JSON values and Python's coercions *)

Absent == [t |-> "absent", n |-> 0, s |-> ""]    \* the key is not in the body
Null == [t |-> "null", n |-> 0, s |-> ""]
Num(m) == [t |-> "num", n |-> m, s |-> ""]       \* m in thousandths
Str(x) == [t |-> "str", n |-> 0, s |-> x]

\* the numeric literals among the strings used as inputs, as float() and int()
\* read them
FloatLiterals == ("0" :> 0) @@ ("2" :> 2000) @@ ("3" :> 3000) @@ ("2.5" :> 2500)
IntLiterals == ("0" :> 0) @@ ("2" :> 2) @@ ("3" :> 3)

\* Python truth value, as `not x` uses it; dict.get gives None for an absent key
Truthy(v) ==
    CASE v.t = "absent" -> FALSE
      [] v.t = "null" -> FALSE
      [] v.t = "num" -> v.n # 0
      [] v.t = "str" -> v.s # ""

\* float(v): raises TypeError on None, ValueError on a non-numeric string
FloatOk(v) == \/ v.t = "num"
              \/ v.t = "str" /\ v.s \in DOMAIN FloatLiterals
FloatVal(v) == IF v.t = "num" THEN v.n ELSE FloatLiterals[v.s]

\* int(v): truncates a number towards zero, reads only integer literals
IntOk(v) == \/ v.t = "num"
            \/ v.t = "str" /\ v.s \in DOMAIN IntLiterals
IntVal(v) ==
    IF v.t = "num"
    THEN (IF v.n >= 0 THEN v.n \div 1000 ELSE -((-v.n) \div 1000))
    ELSE IntLiterals[v.s]

\* request.args.get(key, default, type=int): the default when the parameter is
\* absent or int() raises
ArgInt(v, default) == IF v.t = "str" /\ IntOk(v) THEN IntVal(v) ELSE default

---------------------------------------------------------------------------
(* The store: table productos *)

VARCHAR_LEN == 100
NUMERIC_DIGITS == 10
NUMERIC_SCALE == 2
INT4_MAX == 2147483647

RECURSIVE Pow10(_)
Pow10(k) == IF k = 0 THEN 1 ELSE 10 * Pow10(k - 1)

\* a value in thousandths rounded (half away from zero) to the hundredths of
\* DECIMAL(10,2)
ToNumeric2(m) ==
    LET unit == Pow10(3 - NUMERIC_SCALE)
    IN  IF m >= 0 THEN (m + unit \div 2) \div unit ELSE -((unit \div 2 - m) \div unit)
\* DECIMAL(10,2) leaves 8 digits before the point
NumericFits(m) ==
    LET h == ToNumeric2(m)
        whole == (IF h >= 0 THEN h ELSE -h) \div Pow10(NUMERIC_SCALE)
    IN  whole < Pow10(NUMERIC_DIGITS - NUMERIC_SCALE)
VarcharFits(x) == Len(x) <= VARCHAR_LEN
Int4Fits(i) == i <= INT4_MAX /\ -i - 1 <= INT4_MAX

Ids(table) == {r.id : r \in table}
RowOf(table, id) == CHOOSE r \in table : r.id = id

\* nextval('productos_id_seq')
NextVal(seq) == seq + 1

\* the three rows of the INSERT of init_db
SeedValues ==
    << [nombre |-> "Laptop", precio |-> 1200500, stock |-> 10],
       [nombre |-> "Mouse", precio |-> 25990, stock |-> 50],
       [nombre |-> "Teclado", precio |-> 75000, stock |-> 30] >>

NewRow(id, nombre, precio, stock, ts) ==
    [id |-> id, nombre |-> nombre, precio |-> ToNumeric2(precio), stock |-> stock,
     fecha_creacion |-> ts]

\* INSERT INTO productos (nombre, precio, stock) VALUES ... ON CONFLICT DO NOTHING:
\* every row draws its id from the sequence; a row is skipped only when its id
\* is already taken (the primary key is the table's one unique index)
RECURSIVE SeedInsert(_, _, _, _)
SeedInsert(table, seq, ts, k) ==
    IF k > Len(SeedValues) THEN [table |-> table, seq |-> seq]
    ELSE LET id == NextVal(seq)
             v == SeedValues[k]
             t == IF id \in Ids(table) THEN table
                  ELSE table \cup {NewRow(id, v.nombre, v.precio, v.stock, ts)}
         IN SeedInsert(t, id, ts, k + 1)

\* a variant of InsertProducto that numbers the row after the largest id in the
\* table instead of drawing from the sequence
InsertProductoMaxId(table, seq, nombre, precio, stock, ts, early) ==
    LET fits == VarcharFits(nombre) /\ NumericFits(precio) /\ Int4Fits(stock)
        top == CHOOSE i \in Ids(table) \cup {0} : \A j \in Ids(table) : j <= i
        r == NewRow(top + 1, nombre, precio, stock, ts)
    IN  IF ~fits
        THEN [ok |-> FALSE, table |-> table, seq |-> seq, rows |-> <<>>]
        ELSE [ok |-> TRUE, table |-> table \cup {r}, seq |-> seq, rows |-> <<r>>]

\* INSERT INTO productos (nombre, precio, stock) VALUES (%s, %s, %s) RETURNING ...
\* A value that does not fit its column aborts the statement; `early` tells
\* whether the store finds that out before it draws the id (the sequence is not
\* rolled back once drawn).  A taken id violates the primary key.
InsertProducto(table, seq, nombre, precio, stock, ts, early) ==
    LET fits == VarcharFits(nombre) /\ NumericFits(precio) /\ Int4Fits(stock)
        id == NextVal(seq)
    IN  IF ~fits
        THEN [ok |-> FALSE, table |-> table, seq |-> IF early THEN seq ELSE id, rows |-> <<>>]
        ELSE IF id \in Ids(table)
        THEN [ok |-> FALSE, table |-> table, seq |-> id, rows |-> <<>>]
        ELSE LET r == NewRow(id, nombre, precio, stock, ts)
             IN [ok |-> TRUE, table |-> table \cup {r}, seq |-> id, rows |-> <<r>>]

\* a variant of SetRow that writes all three columns, a column the request
\* did not name with the value the handler holds for it
SetRowAll(r, sets) ==
    [r EXCEPT !.nombre = sets.nombre.s,
              !.precio = ToNumeric2(sets.precio),
              !.stock = sets.stock]

\* the SET list the handler assembled: the columns named and their values
\* (nombre a JSON value as received, precio in thousandths, stock an integer)
SetRow(r, sets) ==
    [r EXCEPT !.nombre = IF "nombre" \in sets.cols THEN sets.nombre.s ELSE @,
              !.precio = IF "precio" \in sets.cols THEN ToNumeric2(sets.precio) ELSE @,
              !.stock = IF "stock" \in sets.cols THEN sets.stock ELSE @]

SetsFit(sets) ==
    /\ ("nombre" \in sets.cols /\ sets.nombre.t = "str") => VarcharFits(sets.nombre.s)
    /\ "precio" \in sets.cols => NumericFits(sets.precio)
    /\ "stock" \in sets.cols => Int4Fits(sets.stock)

\* UPDATE productos SET ... WHERE id = %s RETURNING ...
\* A value that does not fit its column aborts the statement, with `early` also
\* when no row matches; NULL in nombre violates NOT NULL on the row it is written to.
UpdateProducto(table, id, sets, early) ==
    LET found == id \in Ids(table)
        old == RowOf(table, id)
    IN  IF ~SetsFit(sets) /\ (early \/ found)
        THEN [ok |-> FALSE, table |-> table, rows |-> <<>>]
        ELSE IF ~found
        THEN [ok |-> TRUE, table |-> table, rows |-> <<>>]
        ELSE IF "nombre" \in sets.cols /\ sets.nombre.t # "str"
        THEN [ok |-> FALSE, table |-> table, rows |-> <<>>]
        ELSE LET new == SetRow(old, sets)
             IN [ok |-> TRUE, table |-> (table \ {old}) \cup {new}, rows |-> <<new>>]

\* DELETE FROM productos WHERE id = %s RETURNING id, nombre
DeleteProducto(table, id) ==
    IF id \in Ids(table)
    THEN [table |-> table \ {RowOf(table, id)}, rows |-> <<RowOf(table, id)>>]
    ELSE [table |-> table, rows |-> <<>>]

\* ... ORDER BY id
RECURSIVE OrderById(_)
OrderById(table) ==
    IF table = {} THEN <<>>
    ELSE LET first == CHOOSE r \in table : \A q \in table : r.id <= q.id
         IN <<first>> \o OrderById(table \ {first})

\* a variant of LimitOffset that skips one row too many
LimitOffsetSkipsOne(rows, limit, offset) ==
    LET lo == offset + 2
        hi == IF offset + 1 + limit < Len(rows) THEN offset + 1 + limit ELSE Len(rows)
    IN  IF lo > hi THEN <<>> ELSE SubSeq(rows, lo, hi)

\* SELECT ... ORDER BY id LIMIT limit OFFSET offset, both non-negative
LimitOffset(rows, limit, offset) ==
    LET lo == offset + 1
        hi == IF offset + limit < Len(rows) THEN offset + limit ELSE Len(rows)
    IN  IF lo > hi THEN <<>> ELSE SubSeq(rows, lo, hi)

---------------------------------------------------------------------------
(* The handlers of src/app.py *)

isoformat(ts) == "T" \o ToString(ts)

\* a row as the dictionary that is serialised: precio a float again
map_product_row(row) ==
    [id |-> row.id, nombre |-> row.nombre, precio |-> row.precio * 10,
     stock |-> row.stock, fecha_creacion |-> isoformat(row.fecha_creacion)]

MapRows(rows) == [i \in 1..Len(rows) |-> map_product_row(rows[i])]

NoData == [nombre |-> Absent, precio |-> Absent, stock |-> Absent, otro |-> FALSE]

Request(op, id, data, page, limit) ==
    [op |-> op, id |-> id, data |-> data, page |-> page, limit |-> limit]

Response(status, error, prods, eliminado) ==
    [status |-> status, error |-> error, productos |-> prods, eliminado |-> eliminado]

Error(status, msg) == Response(status, msg, <<>>, <<>>)

\* POST /productos
crear_producto_result(table, seq, ts, data, early) ==
    IF ~Truthy(data.nombre) \/ ~Truthy(data.precio)
    THEN [table |-> table, seq |-> seq,
          resp |-> Error(400, "Nombre y precio son requeridos")]
    ELSE LET stock == IF data.stock.t = "absent" THEN Num(0) ELSE data.stock
         IN  IF ~FloatOk(data.precio) \/ ~IntOk(stock)
             THEN [table |-> table, seq |-> seq,
                   resp |-> Error(400, "Precio debe ser numerico y Stock debe ser un entero")]
             ELSE LET ins == InsertProducto(table, seq, data.nombre.s,
                                            FloatVal(data.precio), IntVal(stock), ts, early)
                  IN  IF ins.ok
                      THEN [table |-> ins.table, seq |-> ins.seq,
                            resp |-> Response(201, "", MapRows(ins.rows), <<>>)]
                      ELSE [table |-> table, seq |-> ins.seq,
                            resp |-> Error(500, "Error de base de datos")]

\* a variant of actualizar_producto_result that writes each column as soon as its
\* value has been validated, so that a later invalid field leaves the earlier
\* ones applied
actualizar_producto_result_eager(table, id, data, early) ==
    LET cols == {c \in {"nombre", "precio", "stock"} : data[c].t # "absent"}
        okPrecio == "precio" \in cols => FloatOk(data.precio)
        okStock == "stock" \in cols => IntOk(data.stock)
        done == {c \in cols : \/ c = "nombre"
                              \/ c = "precio" /\ okPrecio
                              \/ c = "stock" /\ okPrecio /\ okStock}
        sets == [cols |-> done, nombre |-> data.nombre,
                 precio |-> IF FloatOk(data.precio) THEN FloatVal(data.precio) ELSE 0,
                 stock |-> IF IntOk(data.stock) THEN IntVal(data.stock) ELSE 0]
        upd == UpdateProducto(table, id, sets, early)
    IN  IF cols = {}
        THEN [table |-> table, resp |-> Error(400, "No hay datos para actualizar")]
        ELSE IF ~upd.ok
        THEN [table |-> table, resp |-> Error(500, "Error de base de datos")]
        ELSE IF ~okPrecio
        THEN [table |-> upd.table, resp |-> Error(400, "Precio debe ser numerico")]
        ELSE IF ~okStock
        THEN [table |-> upd.table, resp |-> Error(400, "Stock debe ser un entero")]
        ELSE IF upd.rows = <<>>
        THEN [table |-> upd.table, resp |-> Error(404, "Producto no encontrado")]
        ELSE [table |-> upd.table, resp |-> Response(200, "", MapRows(upd.rows), <<>>)]

\* PUT /productos/<id>
actualizar_producto_result(table, id, data, early) ==
    LET cols == {c \in {"nombre", "precio", "stock"} : data[c].t # "absent"}
        sets == [cols |-> cols, nombre |-> data.nombre,
                 precio |-> IF FloatOk(data.precio) THEN FloatVal(data.precio) ELSE 0,
                 stock |-> IF IntOk(data.stock) THEN IntVal(data.stock) ELSE 0]
        upd == UpdateProducto(table, id, sets, early)
    IN  IF cols = {} /\ ~data.otro
        THEN [table |-> table, resp |-> Error(400, "No hay datos para actualizar")]
        ELSE IF "precio" \in cols /\ ~FloatOk(data.precio)
        THEN [table |-> table, resp |-> Error(400, "Precio debe ser numerico")]
        ELSE IF "stock" \in cols /\ ~IntOk(data.stock)
        THEN [table |-> table, resp |-> Error(400, "Stock debe ser un entero")]
        ELSE IF cols = {}
        THEN [table |-> table, resp |-> Error(400, "No hay campos validos para actualizar")]
        ELSE IF ~upd.ok
        THEN [table |-> table, resp |-> Error(500, "Error de base de datos")]
        ELSE IF upd.rows = <<>>
        THEN [table |-> upd.table, resp |-> Error(404, "Producto no encontrado")]
        ELSE [table |-> upd.table, resp |-> Response(200, "", MapRows(upd.rows), <<>>)]

\* POST /ui/productos/editar/<id>: the fields of the form are strings, an empty
\* one counts as not filled in; the UPDATE returns nothing and the answer is a
\* redirect to the list whether or not a row matched
ui_editar_producto_post_result(table, id, data, early) ==
    LET cols == {c \in {"nombre", "precio", "stock"} : Truthy(data[c])}
        sets == [cols |-> cols, nombre |-> data.nombre,
                 precio |-> IF FloatOk(data.precio) THEN FloatVal(data.precio) ELSE 0,
                 stock |-> IF IntOk(data.stock) THEN IntVal(data.stock) ELSE 0]
        upd == UpdateProducto(table, id, sets, early)
    IN  IF "precio" \in cols /\ ~FloatOk(data.precio)
        THEN [table |-> table, resp |-> Error(400, "Precio debe ser un numero valido")]
        ELSE IF "stock" \in cols /\ ~IntOk(data.stock)
        THEN [table |-> table, resp |-> Error(400, "Stock debe ser un entero valido")]
        ELSE IF cols = {}
        THEN [table |-> table, resp |-> Response(302, "", <<>>, <<>>)]
        ELSE IF ~upd.ok
        THEN [table |-> table, resp |-> Error(500, "Error al actualizar producto")]
        ELSE [table |-> upd.table, resp |-> Response(302, "", <<>>, <<>>)]

\* a variant of eliminar_producto_result that reads the returned row before
\* testing that there is one
eliminar_producto_result_unchecked(table, id) ==
    LET del == DeleteProducto(table, id)
    IN  IF del.rows # <<>>
        THEN [table |-> del.table,
              resp |-> Response(200, "", <<>>,
                                <<[id |-> del.rows[1].id, nombre |-> del.rows[1].nombre]>>)]
        ELSE [table |-> del.table, resp |-> Error(500, "Error interno del servidor")]

\* DELETE /productos/<id>
eliminar_producto_result(table, id) ==
    LET del == DeleteProducto(table, id)
    IN  IF del.rows # <<>>
        THEN [table |-> del.table,
              resp |-> Response(200, "", <<>>,
                                <<[id |-> del.rows[1].id, nombre |-> del.rows[1].nombre]>>)]
        ELSE [table |-> del.table, resp |-> Error(404, "Producto no encontrado")]

\* GET /productos/<id>
obtener_producto_result(table, id) ==
    IF id \in Ids(table)
    THEN Response(200, "", <<map_product_row(RowOf(table, id))>>, <<>>)
    ELSE Error(404, "Producto no encontrado")

DEFAULT_PAGE == 1
DEFAULT_LIMIT == 10

\* GET /productos?page=&limit= ; the store refuses a negative LIMIT or OFFSET
obtener_productos_result(table, pageArg, limitArg) ==
    LET page == ArgInt(pageArg, DEFAULT_PAGE)
        limit == ArgInt(limitArg, DEFAULT_LIMIT)
        offset == (page - 1) * limit
    IN  IF limit < 0 \/ offset < 0
        THEN Error(500, "Error interno del servidor")
        ELSE Response(200, "", MapRows(LimitOffset(OrderById(table), limit, offset)), <<>>)

---------------------------------------------------------------------------
(* Inputs *)

RECURSIVE Repeat(_, _)
Repeat(c, k) == IF k = 0 THEN "" ELSE c \o Repeat(c, k - 1)
LongName == Repeat("x", VARCHAR_LEN + 1)

Data(nombre, precio, stock, otro) ==
    [nombre |-> nombre, precio |-> precio, stock |-> stock, otro |-> otro]

NameInputs == {Absent, Null, Str(""), Str("Cable"), Str(LongName)}
PriceInputs == {Absent, Null, Num(0), Num(1005), Str("abc")}
StockInputs == {Absent, Num(5700), Str("x")}
QueryInputs == {Absent, Str("x"), Str("0"), Str("2"), Str("3")}

\* the bodies of the requests of Spec; {"otro": ...} is a body with none of the
\* three keys
CreateData == {Data(n, p, k, FALSE) : n \in NameInputs, p \in PriceInputs, k \in StockInputs}
UpdateData == CreateData \cup {Data(Absent, Absent, Absent, TRUE)}

\* the bodies of the requests of SpecDeep
DeepCreateData ==
    { Data(Str("Cable"), Num(1005), Absent, FALSE),
      Data(Str("Cable"), Num(0), Absent, FALSE),
      Data(Str(LongName), Str("2.5"), Str("3"), FALSE) }
DeepUpdateData ==
    { Data(Absent, Absent, Num(5700), FALSE),
      Data(Str(""), Str("2.5"), Absent, FALSE) }

\* the forms posted to /ui/productos/editar/<id>
FormData ==
    {Data(n, p, k, FALSE) : n \in {Absent, Str("Cable")},
                            p \in {Absent, Str("abc"), Str("2.5")},
                            k \in {Str(""), Str("x"), Str("3")}}

\* the ids of the rows and one id that no row has
IdInputs == 1..(productos_id_seq + 1)

---------------------------------------------------------------------------
(* Actions *)

NoResponse == Response(0, "", <<>>, <<>>)
Idle == Request("none", 0, NoData, Absent, Absent)

\* the state after the first start of the process: init_db() on an empty store
InitProductos ==
    /\ productos = SeedInsert({}, 0, 0, 1).table
    /\ productos_id_seq = SeedInsert({}, 0, 0, 1).seq
    /\ now = 0
    /\ writes = 0
    /\ creados = <<>>
    /\ request = Idle
    /\ response = NoResponse

\* a request that changes the store is served only within the budget
Charge(table, seq, budget) ==
    IF table = productos /\ seq = productos_id_seq
    THEN writes' = writes
    ELSE writes < budget /\ writes' = writes + 1

\* the readings of CURRENT_TIMESTAMP an INSERT can get: not before the latest one
Clock == now..MaxNow

\* the process is started again: __main__ runs init_db() before serving
init_db(budget) ==
    /\ UNCHANGED <<pvars, fvars>>
    /\ request = Idle
    /\ productos_id_seq + Len(SeedValues) <= MaxSeq
    /\ \E ts \in Clock :
         LET r == SeedInsert(productos, productos_id_seq, ts, 1)
         IN /\ productos' = r.table
            /\ productos_id_seq' = r.seq
            /\ Charge(r.table, r.seq, budget)
            /\ now' = ts
    /\ request' = Request("init_db", 0, NoData, Absent, Absent)
    /\ response' = NoResponse
    /\ UNCHANGED creados

crear_producto(bodies, budget) ==
    /\ UNCHANGED <<pvars, fvars>>
    /\ request = Idle
    /\ productos_id_seq < MaxSeq
    /\ \E data \in bodies, early \in BOOLEAN, ts \in Clock :
         LET r == crear_producto_result(productos, productos_id_seq, ts, data, early)
         IN /\ productos' = r.table
            /\ productos_id_seq' = r.seq
            /\ Charge(r.table, r.seq, budget)
            /\ now' = IF r.resp.status = 201 THEN ts ELSE now
            /\ request' = Request("crear", 0, data, Absent, Absent)
            /\ response' = r.resp
            /\ creados' = IF r.resp.status = 201
                          THEN Append(creados, r.resp.productos[1].id)
                          ELSE creados

actualizar_producto(bodies, budget) ==
    /\ UNCHANGED <<pvars, fvars>>
    /\ request = Idle
    /\ \E id \in IdInputs, data \in bodies, early \in BOOLEAN :
         LET r == actualizar_producto_result(productos, id, data, early)
         IN /\ productos' = r.table
            /\ Charge(r.table, productos_id_seq, budget)
            /\ request' = Request("actualizar", id, data, Absent, Absent)
            /\ response' = r.resp
    /\ UNCHANGED <<productos_id_seq, now, creados>>

ui_editar_producto(forms, budget) ==
    /\ UNCHANGED <<pvars, fvars>>
    /\ request = Idle
    /\ \E id \in IdInputs, data \in forms, early \in BOOLEAN :
         LET r == ui_editar_producto_post_result(productos, id, data, early)
         IN /\ productos' = r.table
            /\ Charge(r.table, productos_id_seq, budget)
            /\ request' = Request("ui_editar", id, data, Absent, Absent)
            /\ response' = r.resp
    /\ UNCHANGED <<productos_id_seq, now, creados>>

eliminar_producto(budget) ==
    /\ UNCHANGED <<pvars, fvars>>
    /\ request = Idle
    /\ \E id \in IdInputs :
         LET r == eliminar_producto_result(productos, id)
         IN /\ productos' = r.table
            /\ Charge(r.table, productos_id_seq, budget)
            /\ request' = Request("eliminar", id, NoData, Absent, Absent)
            /\ response' = r.resp
    /\ UNCHANGED <<productos_id_seq, now, creados>>

obtener_producto ==
    /\ UNCHANGED <<pvars, fvars>>
    /\ request = Idle
    /\ \E id \in IdInputs :
         /\ request' = Request("obtener", id, NoData, Absent, Absent)
         /\ response' = obtener_producto_result(productos, id)
    /\ UNCHANGED <<productos, productos_id_seq, now, writes, creados>>

obtener_productos(args) ==
    /\ UNCHANGED <<pvars, fvars>>
    /\ request = Idle
    /\ \E page \in args, limit \in args :
         /\ request' = Request("listar", 0, NoData, page, limit)
         /\ response' = obtener_productos_result(productos, page, limit)
    /\ UNCHANGED <<productos, productos_id_seq, now, writes, creados>>

\* the response has been sent (or init_db has returned): the next request is awaited
Respond ==
    /\ UNCHANGED <<pvars, fvars>>
    /\ request # Idle
    /\ request' = Idle
    /\ response' = NoResponse
    /\ UNCHANGED <<productos, productos_id_seq, now, writes, creados>>

---------------------------------------------------------------------------
(* The handlers of src/apirest_python-main/app.py.  Of the four optional text   *)
(* columns (email, telefono, direccion, fecha_nacimiento), which the handlers   *)
(* treat alike, the model keeps email; fecha_registro, which no handler writes, *)
(* is left out.                                                                 *)

Threads == 1..NumThreads

PersonaData(nombre, apellido, edad, email) ==
    [nombre |-> nombre, apellido |-> apellido, edad |-> edad, email |-> email]
NoPersonaData == PersonaData(Absent, Absent, Absent, Absent)
PersonaRequest(op, id, data) == [op |-> op, id |-> id, data |-> data]
NoPersonaRequest == PersonaRequest("none", 0, NoPersonaData)

PersonaCreateData ==
    { PersonaData(Str("Ana"), Str("Ruiz"), Num(30000), Absent),
      PersonaData(Str("Ana"), Absent, Num(30000), Str("a@x")),
      PersonaData(Str("Ana"), Str("Ruiz"), Null, Absent) }
PersonaUpdateData ==
    { NoPersonaData,
      PersonaData(Str("Eva"), Absent, Absent, Absent),
      PersonaData(Absent, Absent, Num(31000), Absent),
      PersonaData(Absent, Absent, Absent, Str("e@x")) }
PersonaIds == 1..(personas_seq + 1)

PersonaFields == {"nombre", "apellido", "edad", "email"}

\* init_db() at import: CREATE TABLE IF NOT EXISTS personas, no rows
InitPersonas ==
    /\ personas = {}
    /\ personas_seq = 0
    /\ pc = [w \in Threads |-> "idle"]
    /\ req = [w \in Threads |-> NoPersonaRequest]
    /\ persona = [w \in Threads |-> <<>>]
    /\ resp = [w \in Threads |-> 0]
    /\ served = 0

\* no request is being walked through get_db_cursor
InitTx ==
    /\ step = "idle"
    /\ conn = "none"
    /\ txn = {}
    /\ before = {}
    /\ calls = <<>>
    /\ raised = FALSE
    /\ pending = NoResponse

\* no thread of the personas server holds a connection
InitConns ==
    /\ pconn = [w \in Threads |-> "none"]
    /\ leaked = 0

Init == InitProductos /\ InitPersonas /\ InitTx /\ InitConns

Finish(w, r, status) ==
    /\ pc' = [pc EXCEPT ![w] = "done"]
    /\ req' = [req EXCEPT ![w] = r]
    /\ resp' = [resp EXCEPT ![w] = status]

\* POST /personas: data['nombre'], data['apellido'], data['edad'] raise KeyError
\* on an absent key, the INSERT raises on NULL in a NOT NULL column; both are
\* answered 500.  The id is one more than the largest ever given (AUTOINCREMENT).
create_persona(w) ==
    /\ pc[w] = "idle"
    /\ served < MaxServed
    /\ served' = served + 1
    /\ \E data \in PersonaCreateData :
         LET r == PersonaRequest("crear", 0, data)
             id == personas_seq + 1
             email == IF data.email.t = "absent" THEN Str("") ELSE data.email
         IN  IF \E f \in {"nombre", "apellido", "edad"} : data[f].t \in {"absent", "null"}
             THEN /\ Finish(w, r, 500)
                  /\ UNCHANGED <<personas, personas_seq>>
             ELSE /\ personas' = personas \cup
                        {[id |-> id, nombre |-> data.nombre, apellido |-> data.apellido,
                          edad |-> data.edad, email |-> email]}
                  /\ personas_seq' = id
                  /\ Finish(w, r, 201)
    /\ UNCHANGED <<persona, prodvars, fvars>>

\* PUT /personas/<id>, up to the SELECT: 400 on an empty body, 404 when the
\* SELECT returns no row
update_persona_select(w) ==
    /\ pc[w] = "idle"
    /\ served < MaxServed
    /\ served' = served + 1
    /\ \E id \in PersonaIds, data \in PersonaUpdateData :
         LET r == PersonaRequest("actualizar", id, data)
         IN  IF data = NoPersonaData
             THEN Finish(w, r, 400) /\ UNCHANGED persona
             ELSE IF id \notin Ids(personas)
             THEN Finish(w, r, 404) /\ UNCHANGED persona
             ELSE /\ pc' = [pc EXCEPT ![w] = "update"]
                  /\ req' = [req EXCEPT ![w] = r]
                  /\ persona' = [persona EXCEPT ![w] = <<RowOf(personas, id)>>]
                  /\ UNCHANGED resp
    /\ UNCHANGED <<personas, personas_seq, prodvars, fvars>>

\* the value the UPDATE writes to a column: the one of the body, or the one the
\* SELECT read when the body has none (data.get gives None for null as well)
Merged(data, old, f) == IF data[f].t \in {"absent", "null"} THEN old[f] ELSE data[f]

\* PUT /personas/<id>, the UPDATE of all columns WHERE id = ?, and the commit
update_persona_write(w) ==
    /\ pc[w] = "update"
    /\ LET id == req[w].id
           old == persona[w][1]
           new == [f \in PersonaFields \cup {"id"} |->
                     IF f = "id" THEN id ELSE Merged(req[w].data, old, f)]
       IN  personas' = {IF r.id = id THEN new ELSE r : r \in personas}
    /\ pc' = [pc EXCEPT ![w] = "done"]
    /\ resp' = [resp EXCEPT ![w] = 200]
    /\ UNCHANGED <<personas_seq, req, persona, served, prodvars, fvars>>

\* DELETE /personas/<id>, up to the SELECT
delete_persona_select(w) ==
    /\ pc[w] = "idle"
    /\ served < MaxServed
    /\ served' = served + 1
    /\ \E id \in PersonaIds :
         LET r == PersonaRequest("eliminar", id, NoPersonaData)
         IN  IF id \notin Ids(personas)
             THEN Finish(w, r, 404) /\ UNCHANGED persona
             ELSE /\ pc' = [pc EXCEPT ![w] = "delete"]
                  /\ req' = [req EXCEPT ![w] = r]
                  /\ persona' = [persona EXCEPT ![w] = <<RowOf(personas, id)>>]
                  /\ UNCHANGED resp
    /\ UNCHANGED <<personas, personas_seq, prodvars, fvars>>

\* DELETE /personas/<id>, the DELETE WHERE id = ?, and the commit
delete_persona_write(w) ==
    /\ pc[w] = "delete"
    /\ personas' = {r \in personas : r.id # req[w].id}
    /\ pc' = [pc EXCEPT ![w] = "done"]
    /\ resp' = [resp EXCEPT ![w] = 200]
    /\ UNCHANGED <<personas_seq, req, persona, served, prodvars, fvars>>

\* the response of thread w has been sent
Return(w) ==
    /\ pc[w] = "done"
    /\ pc' = [pc EXCEPT ![w] = "idle"]
    /\ req' = [req EXCEPT ![w] = NoPersonaRequest]
    /\ persona' = [persona EXCEPT ![w] = <<>>]
    /\ resp' = [resp EXCEPT ![w] = 0]
    /\ UNCHANGED <<personas, personas_seq, served, prodvars, fvars>>

---------------------------------------------------------------------------
(* A request of src/app.py call by call on its connection, as get_db_cursor    *)
(* and the body of the with block make them: psycopg2.connect, cur.execute,    *)
(* cur.fetchone/fetchall and conn.commit may each raise.  The cursor is opened *)
(* and closed with its connection.  Table productos is what is committed; txn  *)
(* is what the open transaction sees.                                          *)

MutatingOps == {"crear", "actualizar", "ui_editar", "eliminar"}

\* the commit argument the handler gives get_db_cursor
Commit(op) == op \in MutatingOps

TxUpdateData == DeepUpdateData \cup {Data(Str(LongName), Absent, Absent, FALSE)}
TxFormData == {Data(Str("Cable"), Absent, Str(""), FALSE), Data(Absent, Str("abc"), Str("3"), FALSE)}
TxQueryInputs == {Absent, Str("0")}

TxRequests ==
    {Request("crear", 0, d, Absent, Absent) : d \in DeepCreateData}
    \cup {Request("actualizar", i, d, Absent, Absent) : i \in IdInputs, d \in TxUpdateData}
    \cup {Request("ui_editar", i, d, Absent, Absent) : i \in IdInputs, d \in TxFormData}
    \cup {Request("eliminar", i, NoData, Absent, Absent) : i \in IdInputs}
    \cup {Request("obtener", i, NoData, Absent, Absent) : i \in IdInputs}
    \cup {Request("listar", 0, NoData, p, l) : p \in TxQueryInputs, l \in TxQueryInputs}

\* the handler gets as far as `with get_db_cursor(...)`: the checks before it
\* have not answered the request
ReachesStore(r) ==
    LET d == r.data
        stock == IF d.stock.t = "absent" THEN Num(0) ELSE d.stock
        given(v) == IF r.op = "ui_editar" THEN Truthy(v) ELSE v.t # "absent"
    IN  CASE r.op = "crear" ->
               Truthy(d.nombre) /\ Truthy(d.precio) /\ FloatOk(d.precio) /\ IntOk(stock)
          [] r.op \in {"actualizar", "ui_editar"} ->
               /\ given(d.nombre) \/ given(d.precio) \/ given(d.stock)
               /\ given(d.precio) => FloatOk(d.precio)
               /\ given(d.stock) => IntOk(d.stock)
          [] OTHER -> TRUE

\* what the handler of request r does with the table it is given: the table and
\* the sequence after its statement, and its answer (500 when the statement raises)
HandlerBody(r, table, seq, ts, early) ==
    CASE r.op = "crear" -> crear_producto_result(table, seq, ts, r.data, early)
      [] r.op = "actualizar" ->
           LET b == actualizar_producto_result(table, r.id, r.data, early)
           IN [table |-> b.table, seq |-> seq, resp |-> b.resp]
      [] r.op = "ui_editar" ->
           LET b == ui_editar_producto_post_result(table, r.id, r.data, early)
           IN [table |-> b.table, seq |-> seq, resp |-> b.resp]
      [] r.op = "eliminar" ->
           LET b == eliminar_producto_result(table, r.id)
           IN [table |-> b.table, seq |-> seq, resp |-> b.resp]
      [] r.op = "obtener" ->
           [table |-> table, seq |-> seq, resp |-> obtener_producto_result(table, r.id)]
      [] r.op = "listar" ->
           [table |-> table, seq |-> seq,
            resp |-> obtener_productos_result(table, r.page, r.limit)]

\* the answer of the except clause of the handler
StoreError(op) ==
    CASE op \in {"crear", "actualizar"} -> Error(500, "Error de base de datos")
      [] op = "ui_editar" -> Error(500, "Error al actualizar producto")
      [] OTHER -> Error(500, "Error interno del servidor")

Call(name, ok) == [call |-> name, ok |-> ok]

\* a variant of AfterYield that commits whenever the handler asked for it, as
\* a commit placed in the finally block would
AfterYieldAlwaysCommit(commit, exception) ==
    IF commit THEN "commit"
    ELSE IF exception THEN "rollback"
    ELSE "none"

\* what get_db_cursor does when the with block is left: commit after a body
\* that has not raised, if asked to; rollback in the except clause
AfterYield(commit, exception) ==
    IF exception THEN "rollback"
    ELSE IF commit THEN "commit"
    ELSE "none"

\* a request arrives; the checks of the handler answer it, or it goes on to
\* get_db_cursor
handle ==
    /\ step = "idle"
    /\ request = Idle
    /\ \E r \in TxRequests :
         /\ r.op = "crear" => productos_id_seq < MaxSeq
         /\ r.op \in MutatingOps => writes < TxWrites
         /\ request' = r
         /\ before' = productos
         /\ IF ReachesStore(r)
            THEN step' = "connect" /\ response' = NoResponse
            ELSE /\ step' = "done"
                 /\ response' = HandlerBody(r, productos, productos_id_seq, now, FALSE).resp
    /\ UNCHANGED <<productos, productos_id_seq, now, writes, creados>>
    /\ UNCHANGED <<conn, txn, calls, raised, pending>>
    /\ UNCHANGED <<pvars, connvars>>

\* conn = psycopg2.connect(...); cur = conn.cursor(); yield cur
connect ==
    /\ step = "connect"
    /\ \E fault \in BOOLEAN :
         IF fault
         THEN /\ raised' = TRUE
              /\ step' = "except"
              /\ calls' = Append(calls, Call("connect", FALSE))
              /\ UNCHANGED <<conn, txn>>
         ELSE /\ conn' = "open"
              /\ txn' = productos
              /\ step' = "execute"
              /\ calls' = Append(calls, Call("connect", TRUE))
              /\ UNCHANGED raised
    /\ UNCHANGED <<before, pending, prodvars, pvars, connvars>>

\* cur.execute(...): it may fail on its own, or the statement raises; an INSERT
\* that raises may have drawn from the sequence.  The form of the UI fetches
\* nothing and leaves the with block.
execute ==
    /\ step = "execute"
    /\ \E fault \in BOOLEAN, early \in BOOLEAN, ts \in Clock :
         LET b == HandlerBody(request, txn, productos_id_seq, ts, early)
         IN  IF fault \/ b.resp.status = 500
             THEN /\ raised' = TRUE
                  /\ step' = "except"
                  /\ calls' = Append(calls, Call("execute", FALSE))
                  /\ productos_id_seq' = IF fault THEN productos_id_seq ELSE b.seq
                  /\ UNCHANGED <<txn, pending, now>>
             ELSE /\ txn' = b.table
                  /\ productos_id_seq' = b.seq
                  /\ pending' = b.resp
                  /\ now' = IF b.resp.status = 201 THEN ts ELSE now
                  /\ step' = IF request.op = "ui_editar" THEN "exit" ELSE "fetch"
                  /\ calls' = Append(calls, Call("execute", TRUE))
                  /\ UNCHANGED raised
    /\ UNCHANGED <<productos, writes, creados, request, response>>
    /\ UNCHANGED <<conn, before, pvars, connvars>>

\* cur.fetchone() / cur.fetchall(), then the body returns its answer
fetch ==
    /\ step = "fetch"
    /\ \E fault \in BOOLEAN :
         IF fault
         THEN /\ raised' = TRUE
              /\ step' = "except"
              /\ calls' = Append(calls, Call("fetch", FALSE))
         ELSE /\ step' = "exit"
              /\ calls' = Append(calls, Call("fetch", TRUE))
              /\ UNCHANGED raised
    /\ UNCHANGED <<conn, txn, before, pending, prodvars, pvars, connvars>>

\* get_db_cursor after the yield: conn.commit() when the body has not raised
\* and commit was asked for, and that may raise too; conn.rollback() in the
\* except clause when there is a connection
after_yield ==
    /\ step \in {"exit", "except"}
    /\ LET call == AfterYield(Commit(request.op), raised)
       IN  IF call = "commit" /\ conn = "open"
           THEN \E fault \in BOOLEAN :
                  IF fault
                  THEN /\ raised' = TRUE
                       /\ step' = "except"
                       /\ calls' = Append(calls, Call("commit", FALSE))
                       /\ UNCHANGED <<productos, writes, creados, txn>>
                  ELSE /\ productos' = txn
                       /\ writes' = IF txn = productos THEN writes ELSE writes + 1
                       /\ creados' = IF pending.status = 201
                                     THEN Append(creados, pending.productos[1].id)
                                     ELSE creados
                       /\ step' = "finally"
                       /\ calls' = Append(calls, Call("commit", TRUE))
                       /\ UNCHANGED <<raised, txn>>
           ELSE IF call = "rollback" /\ conn = "open"
           THEN /\ txn' = productos
                /\ step' = "finally"
                /\ calls' = Append(calls, Call("rollback", TRUE))
                /\ UNCHANGED <<productos, writes, creados, raised>>
           ELSE /\ step' = "finally"
                /\ UNCHANGED <<productos, writes, creados, raised, txn, calls>>
    /\ UNCHANGED <<productos_id_seq, now, request, response>>
    /\ UNCHANGED <<conn, before, pending, pvars, connvars>>

\* finally: cur.close(); conn.close() when there is a connection; then the
\* handler answers: what the body returned, or 500 from its except clause
close ==
    /\ step = "finally"
    /\ conn' = IF conn = "open" THEN "closed" ELSE conn
    /\ calls' = IF conn = "open" THEN Append(calls, Call("close", TRUE)) ELSE calls
    /\ response' = IF raised THEN StoreError(request.op) ELSE pending
    /\ step' = "done"
    /\ UNCHANGED <<productos, productos_id_seq, now, writes, creados, request>>
    /\ UNCHANGED <<txn, before, raised, pending, pvars, connvars>>

\* the response has been sent: the next request is awaited
respond ==
    /\ step = "done"
    /\ step' = "idle"
    /\ request' = Idle
    /\ response' = NoResponse
    /\ conn' = "none"
    /\ txn' = {}
    /\ before' = {}
    /\ calls' = <<>>
    /\ raised' = FALSE
    /\ pending' = NoResponse
    /\ UNCHANGED <<productos, productos_id_seq, now, writes, creados, pvars, connvars>>

---------------------------------------------------------------------------
(* The handlers of src/apirest_python-main/app.py again, call by call on the   *)
(* connection: sqlite3.connect, execute and commit may each raise.  A handler  *)
(* calls conn.close() on the paths that reach it; its except clause answers    *)
(* 500 and does not touch conn.  What happens to a connection that is left     *)
(* open when the handler returns is up to the interpreter: it may be finalised *)
(* as the frame goes, or stay open until a collection.                         *)

PersonaRequests ==
    {PersonaRequest("crear", 0, d) : d \in PersonaCreateData}
    \cup {PersonaRequest("actualizar", i, d) : i \in PersonaIds, d \in PersonaUpdateData}
    \cup {PersonaRequest("eliminar", i, NoPersonaData) : i \in PersonaIds}

\* the handler up to get_db_connection(): data['...'] raises KeyError on an
\* absent key (500), an empty body of PUT is answered 400, sqlite3.connect may
\* raise (500); in all three no connection has been opened
get_db_connection(w) ==
    /\ pc[w] = "idle"
    /\ served < MaxServed
    /\ served' = served + 1
    /\ \E r \in PersonaRequests, fault \in BOOLEAN :
         IF r.op = "crear" /\ \E f \in {"nombre", "apellido", "edad"} : r.data[f].t = "absent"
         THEN Finish(w, r, 500) /\ UNCHANGED pconn
         ELSE IF r.op = "actualizar" /\ r.data = NoPersonaData
         THEN Finish(w, r, 400) /\ UNCHANGED pconn
         ELSE IF fault
         THEN Finish(w, r, 500) /\ UNCHANGED pconn
         ELSE /\ pc' = [pc EXCEPT ![w] = "connected"]
              /\ req' = [req EXCEPT ![w] = r]
              /\ pconn' = [pconn EXCEPT ![w] = "open"]
              /\ UNCHANGED resp
    /\ UNCHANGED <<personas, personas_seq, persona, leaked, prodvars, txvars>>

\* conn.execute('SELECT * FROM personas WHERE id = ?').fetchone() of PUT and
\* DELETE: no row is answered 404 after conn.close(); an exception is answered
\* 500 by the except clause
persona_select(w) ==
    /\ pc[w] = "connected"
    /\ req[w].op \in {"actualizar", "eliminar"}
    /\ \E fault \in BOOLEAN :
         IF fault
         THEN Finish(w, req[w], 500) /\ UNCHANGED <<persona, pconn>>
         ELSE IF req[w].id \notin Ids(personas)
         THEN /\ pconn' = [pconn EXCEPT ![w] = "closed"]
              /\ Finish(w, req[w], 404)
              /\ UNCHANGED persona
         ELSE /\ pc' = [pc EXCEPT ![w] = "execute"]
              /\ persona' = [persona EXCEPT ![w] = <<RowOf(personas, req[w].id)>>]
              /\ UNCHANGED <<req, resp, pconn>>
    /\ UNCHANGED <<personas, personas_seq, served, leaked, prodvars, txvars>>

\* the INSERT, UPDATE or DELETE: the INSERT raises on NULL in a NOT NULL column
persona_execute(w) ==
    /\ \/ pc[w] = "connected" /\ req[w].op = "crear"
       \/ pc[w] = "execute"
    /\ \E fault \in BOOLEAN :
         IF \/ fault
            \/ /\ req[w].op = "crear"
               /\ \E f \in {"nombre", "apellido", "edad"} : req[w].data[f].t = "null"
         THEN Finish(w, req[w], 500)
         ELSE /\ pc' = [pc EXCEPT ![w] = "commit"]
              /\ UNCHANGED <<req, resp>>
    /\ UNCHANGED <<personas, personas_seq, persona, served, connvars, prodvars, txvars>>

\* table personas once the statement of request r is committed
PersonaEffect(table, seq, r, old) ==
    CASE r.op = "crear" ->
           LET email == IF r.data.email.t = "absent" THEN Str("") ELSE r.data.email
           IN table \cup {[id |-> seq + 1, nombre |-> r.data.nombre,
                           apellido |-> r.data.apellido, edad |-> r.data.edad,
                           email |-> email]}
      [] r.op = "actualizar" ->
           LET new == [f \in PersonaFields \cup {"id"} |->
                         IF f = "id" THEN r.id ELSE Merged(r.data, old[1], f)]
           IN {IF q.id = r.id THEN new ELSE q : q \in table}
      [] r.op = "eliminar" -> {q \in table : q.id # r.id}

\* conn.commit() and, when it has not raised, conn.close() and the answer
persona_commit(w) ==
    /\ pc[w] = "commit"
    /\ \E fault \in BOOLEAN :
         IF fault
         THEN /\ Finish(w, req[w], 500)
              /\ UNCHANGED <<personas, personas_seq, pconn>>
         ELSE /\ personas' = PersonaEffect(personas, personas_seq, req[w], persona[w])
              /\ personas_seq' = IF req[w].op = "crear" THEN personas_seq + 1 ELSE personas_seq
              /\ pconn' = [pconn EXCEPT ![w] = "closed"]
              /\ Finish(w, req[w], IF req[w].op = "crear" THEN 201 ELSE 200)
    /\ UNCHANGED <<persona, served, leaked, prodvars, txvars>>

\* the handler has returned and its response is sent; a connection it left open
\* has been finalised with its frame, or is still open
persona_return(w) ==
    /\ pc[w] = "done"
    /\ pc' = [pc EXCEPT ![w] = "idle"]
    /\ req' = [req EXCEPT ![w] = NoPersonaRequest]
    /\ persona' = [persona EXCEPT ![w] = <<>>]
    /\ resp' = [resp EXCEPT ![w] = 0]
    /\ pconn' = [pconn EXCEPT ![w] = "none"]
    /\ IF pconn[w] = "open"
       THEN \E finalised \in BOOLEAN : leaked' = IF finalised THEN leaked ELSE leaked + 1
       ELSE UNCHANGED leaked
    /\ UNCHANGED <<personas, personas_seq, served, prodvars, txvars>>

\* a collection finalises a connection that was left open
collect ==
    /\ leaked > 0
    /\ leaked' = leaked - 1
    /\ UNCHANGED <<pconn, pvars, prodvars, txvars>>

---------------------------------------------------------------------------
(* Specifications *)

\* every body and parameter of the input sets, few changes of the store
Next ==
    \/ init_db(MaxWrites)
    \/ crear_producto(CreateData, MaxWrites)
    \/ actualizar_producto(UpdateData, MaxWrites)
    \/ ui_editar_producto(FormData, MaxWrites)
    \/ eliminar_producto(MaxWrites)
    \/ obtener_producto
    \/ obtener_productos(QueryInputs)
    \/ Respond

Spec == Init /\ [][Next]_vars

\* few bodies, more changes of the store
NextDeep ==
    \/ init_db(DeepWrites)
    \/ crear_producto(DeepCreateData, DeepWrites)
    \/ actualizar_producto(DeepUpdateData, DeepWrites)
    \/ eliminar_producto(DeepWrites)
    \/ obtener_producto
    \/ obtener_productos(QueryInputs)
    \/ Respond

SpecDeep == Init /\ [][NextDeep]_vars

\* the personas server, its threads interleaved statement by statement
NextPersonas ==
    \E w \in Threads :
        \/ create_persona(w)
        \/ update_persona_select(w)
        \/ update_persona_write(w)
        \/ delete_persona_select(w)
        \/ delete_persona_write(w)
        \/ Return(w)

SpecPersonas == Init /\ [][NextPersonas]_vars

\* the productos service call by call, with the failures of the store
NextTx ==
    \/ handle
    \/ connect
    \/ execute
    \/ fetch
    \/ after_yield
    \/ close
    \/ respond

SpecTx == Init /\ [][NextTx]_vars

\* the personas server call by call, with the failures of the store
NextPersonasFaults ==
    \/ \E w \in Threads :
          \/ get_db_connection(w)
          \/ persona_select(w)
          \/ persona_execute(w)
          \/ persona_commit(w)
          \/ persona_return(w)
    \/ collect

SpecPersonasFaults == Init /\ [][NextPersonasFaults]_vars

---------------------------------------------------------------------------
(* Properties *)

Supplied(v) == v.t # "absent"
RowsBefore(table, r) == Cardinality({q \in table : q.id < r.id})

\* an update body the handler and the columns accept: at least one of the three
\* fields, a name that is a string of at most VARCHAR_LEN characters, a price
\* that float() reads and DECIMAL(10,2) holds, a stock that int() reads and
\* INTEGER holds
WellFormedUpdate(data) ==
    /\ Supplied(data.nombre) \/ Supplied(data.precio) \/ Supplied(data.stock)
    /\ Supplied(data.nombre) => data.nombre.t = "str" /\ Len(data.nombre.s) <= VARCHAR_LEN
    /\ Supplied(data.precio) => FloatOk(data.precio) /\ NumericFits(FloatVal(data.precio))
    /\ Supplied(data.stock) => IntOk(data.stock) /\ Int4Fits(IntVal(data.stock))

\* a stored price (hundredths) is the number m (thousandths) to the two decimals
\* of the column
PriceHolds(h, m) == 10 * h - m <= 5 /\ m - 10 * h <= 5
\* a stored stock is the integer the supplied value stands for, a fraction cut off
StockHolds(k, v) ==
    IF v.t = "num" THEN 1000 * k <= v.n /\ v.n < 1000 * (k + 1)
    ELSE k = IntLiterals[v.s]

\* C1: an update of an existing row with a well-formed body is answered 200;
\* afterwards every supplied field of the row holds the supplied value (as the
\* column stores it), every other field, the id and the creation timestamp
\* hold what they held, and every other row is as it was.
C1_PartialUpdate ==
    [][ ( /\ request'.op = "actualizar"
          /\ request'.id \in Ids(productos)
          /\ WellFormedUpdate(request'.data) )
        => LET d == request'.data
               old == RowOf(productos, request'.id)
               new == RowOf(productos', request'.id)
           IN /\ response'.status = 200
              /\ Cardinality(productos') = Cardinality(productos)
              /\ \A r \in productos : r.id # request'.id => r \in productos'
              /\ Cardinality({r \in productos' : r.id = request'.id}) = 1
              /\ new.fecha_creacion = old.fecha_creacion
              /\ new.nombre = IF Supplied(d.nombre) THEN d.nombre.s ELSE old.nombre
              /\ IF Supplied(d.precio) THEN PriceHolds(new.precio, FloatVal(d.precio))
                 ELSE new.precio = old.precio
              /\ IF Supplied(d.stock) THEN StockHolds(new.stock, d.stock)
                 ELSE new.stock = old.stock
      ]_vars

\* update(id, {stock: 5.7}) on the seeded row Laptop: name and price stay, stock is 5
C1_Witness ==
    /\ request.op = "actualizar"
    /\ request.data = Data(Absent, Absent, Num(5700), FALSE)
    /\ response.status = 200
    /\ \E r \in productos :
         /\ r.id = request.id
         /\ r.nombre = "Laptop" /\ r.precio = 120050 /\ r.stock = 5

\* a supplied price that float() does not read, or a supplied stock that int()
\* does not read; a field of a form is supplied when it is filled in
InvalidUpdate(op, data) ==
    LET given(v) == IF op = "ui_editar" THEN v.t = "str" /\ v.s # "" ELSE Supplied(v)
    IN  \/ given(data.precio) /\ ~FloatOk(data.precio)
        \/ given(data.stock) /\ ~IntOk(data.stock)

\* C2: an update (PUT /productos/<id>, or the form of the UI) with an invalid
\* price or stock is answered 400 and leaves the table as it was, whatever its
\* other fields; and an update changes the table only when it is answered as a
\* success (200, or the redirect of the UI).
C2_UpdateAllOrNothing ==
    [][ request'.op \in {"actualizar", "ui_editar"}
        => /\ InvalidUpdate(request'.op, request'.data)
              => response'.status = 400 /\ productos' = productos
           /\ productos' # productos
              => response'.status = (IF request'.op = "actualizar" THEN 200 ELSE 302)
      ]_vars

\* a valid name with an invalid price, on an existing row
C2_Witness ==
    /\ request.op = "actualizar"
    /\ request.id \in Ids(productos)
    /\ request.data = Data(Str("Cable"), Str("abc"), Num(5700), FALSE)
    /\ response.status = 400

\* name or price is missing: absent, null or empty
Missing(v) == v.t \in {"absent", "null"} \/ v = Str("")

\* the create bodies the claim has rejected
CreateInvalid(data) ==
    \/ Missing(data.nombre)
    \/ Missing(data.precio)
    \/ ~FloatOk(data.precio)
    \/ Supplied(data.stock) /\ ~IntOk(data.stock)

\* C3: a create is answered 400, and inserts nothing, exactly when name or price
\* is missing, the price is not numeric or the stock is no integer; a create
\* with a name, a numeric price (0 included) and an integer or absent stock is
\* not answered 400.
C3_CreateRejectedExactly ==
    request.op = "crear" => (response.status = 400 <=> CreateInvalid(request.data))

\* a product the claim calls valid: a non-empty name (that the column holds), a
\* numeric price >= 0, an integer stock or none
ValidProduct(data) ==
    /\ data.nombre.t = "str" /\ data.nombre.s # "" /\ Len(data.nombre.s) <= VARCHAR_LEN
    /\ FloatOk(data.precio) /\ FloatVal(data.precio) >= 0
    /\ Supplied(data.stock) => IntOk(data.stock) /\ IntVal(data.stock) * 1000 = FloatVal(data.stock)

\* C4: create(P) of a valid product is answered 201 with a record that carries a
\* generated id and a timestamp and equals P in the supplied fields (stock 0
\* when absent); a get of that id in the state create leaves returns the same
\* record.
C4_CreateGetRoundTrip ==
    (request.op = "crear" /\ ValidProduct(request.data))
    => /\ response.status = 201
       /\ Len(response.productos) = 1
       /\ LET rec == response.productos[1]
              d == request.data
          IN /\ rec.id >= 1
             /\ rec.fecha_creacion # ""
             /\ rec.nombre = d.nombre.s
             /\ PriceHolds(rec.precio \div 10, FloatVal(d.precio))
             /\ rec.stock = IF Supplied(d.stock) THEN IntVal(d.stock) ELSE 0
             /\ obtener_producto_result(productos, rec.id) = Response(200, "", <<rec>>, <<>>)

\* C5: the ids returned by the successful creates of a run are strictly
\* increasing, and no two rows of the table share an id.
C5_IdsIncreasing ==
    /\ \A i, j \in 1..Len(creados) : i < j => creados[i] < creados[j]
    /\ \A r, q \in productos : r.id = q.id => r = q

\* a create, the delete of its row, a failed create and a second create
C5_Witness ==
    /\ request.op = "crear"
    /\ response.status = 201
    /\ Len(creados) = 2
    /\ creados[1] \notin Ids(productos)
    /\ creados[2] > creados[1] + 1

\* C6: a delete, or a well-formed update, of an id that no row has is answered
\* 404 and leaves the table as it was.
C6_AbsentIsNotFound ==
    [][ ( /\ request'.id \notin Ids(productos)
          /\ \/ request'.op = "eliminar"
             \/ request'.op = "actualizar" /\ WellFormedUpdate(request'.data) )
        => response'.status = 404 /\ productos' = productos
      ]_vars

\* the second delete of a seeded row: its id was in the table and is gone
C6_Witness ==
    /\ request.op = "eliminar"
    /\ request.id \in 1..Len(SeedValues)
    /\ request.id \notin Ids(productos)
    /\ response.status = 404

\* page and limit as the claim reads the parameters: the default when absent
ParamOk(v) == v = Absent \/ (v.t = "str" /\ v.s \in DOMAIN IntLiterals)
ParamVal(v, default) == IF v = Absent THEN default ELSE IntLiterals[v.s]

\* C7: a list with page p >= 1 and limit l >= 1 is answered 200 with the rows at
\* positions (p-1)*l+1 .. min(p*l, n) of the table in id order, none when
\* (p-1)*l >= n.
C7_Pagination ==
    LET p == ParamVal(request.page, 1)
        l == ParamVal(request.limit, 10)
        n == Cardinality(productos)
        last == IF p * l < n THEN p * l ELSE n
        len == IF last > (p - 1) * l THEN last - (p - 1) * l ELSE 0
    IN  ( /\ request.op = "listar"
          /\ ParamOk(request.page) /\ ParamOk(request.limit)
          /\ p >= 1 /\ l >= 1 )
        => /\ response.status = 200
           /\ Len(response.productos) = len
           /\ \A k \in 1..len :
                \E r \in productos :
                  /\ RowsBefore(productos, r) = (p - 1) * l + k - 1
                  /\ response.productos[k] = map_product_row(r)

\* page 2 with limit 2 over five rows: the third and the fourth
C7_Witness ==
    /\ request.op = "listar"
    /\ request.page = Str("2") /\ request.limit = Str("2")
    /\ Cardinality(productos) = 5
    /\ Len(response.productos) = 2
    /\ \E r \in productos :
         RowsBefore(productos, r) = 2 /\ response.productos[1].id = r.id

\* C8: every row of the table has a non-empty name.
C8_NameNonEmpty == \A r \in productos : r.nombre # ""

SeedRows(table, k) ==
    {r \in table : /\ r.nombre = SeedValues[k].nombre
                   /\ r.precio = ToNumeric2(SeedValues[k].precio)
                   /\ r.stock = SeedValues[k].stock}

\* C9: after init_db has run again, none of the three example rows is in the
\* table more than once.
C9_SeedIdempotent ==
    request.op = "init_db" => \A k \in 1..Len(SeedValues) : Cardinality(SeedRows(productos, k)) <= 1

SuppliedFields(data) == {f \in PersonaFields : data[f].t \notin {"absent", "null"}}

\* C10: requests take effect one at a time.  Of two updates of one row that
\* supply disjoint fields and are both answered 200, both take effect: the row
\* holds every field either of them supplied.  Of two deletes of one id that
\* are answered together, at most one is answered 200.
C10_AtomicRequests ==
    \A w1, w2 \in Threads :
        ( /\ w1 # w2
          /\ pc[w1] = "done" /\ pc[w2] = "done"
          /\ req[w1].id = req[w2].id )
        => /\ ( /\ req[w1].op = "actualizar" /\ req[w2].op = "actualizar"
                /\ resp[w1] = 200 /\ resp[w2] = 200
                /\ SuppliedFields(req[w1].data) \cap SuppliedFields(req[w2].data) = {} )
              => \A r \in personas :
                   r.id = req[w1].id
                   => \A w \in {w1, w2} : \A f \in SuppliedFields(req[w].data) :
                        r[f] = req[w].data[f]
           /\ (req[w1].op = "eliminar" /\ req[w2].op = "eliminar")
              => ~(resp[w1] = 200 /\ resp[w2] = 200)

\* C11: a request that has been answered has left no connection open: none is
\* open when the handler of src/app.py hands its response over, and none that a
\* handler of the personas server opened outlives its request.
C11_ConnectionsReleased ==
    /\ step = "done" => conn # "open"
    /\ leaked = 0

\* the calls of the request on its connection, by their place in the order made
Made(name, ok) == {i \in 1..Len(calls) : calls[i] = Call(name, ok)}
StoreCalls == {"connect", "execute", "fetch", "commit"}
Failures == {i \in 1..Len(calls) : calls[i].call \in StoreCalls /\ ~calls[i].ok}
CommitsIssued == Made("commit", TRUE) \cup Made("commit", FALSE)

\* C12: when the handler of a request hands its response over: if a store call
\* of a create, update or delete has failed, no commit has succeeded, the
\* transaction (if a connection was opened) has been rolled back after the
\* failure, the answer is a 5xx and the committed table is the one of before
\* the request; a commit has been issued only by a mutating request and only
\* after a body all of whose calls succeeded; and a list or a get has issued no
\* commit and left the committed table as it was.
C12_RollbackOnFailure ==
    step = "done"
    => /\ (request.op \in MutatingOps /\ Failures # {})
          => /\ Made("commit", TRUE) = {}
             /\ Made("connect", TRUE) # {}
                => \E i \in Made("rollback", TRUE) : \A j \in Failures : j < i
             /\ response.status \in 500..599
             /\ productos = before
       /\ \A i \in CommitsIssued :
            /\ request.op \in MutatingOps
            /\ \A j \in 1..(i - 1) : calls[j].ok /\ calls[j].call # "commit"
       /\ request.op \notin MutatingOps => CommitsIssued = {} /\ productos = before

\* a create whose INSERT has been executed, and has drawn its id, and whose
\* fetchone then fails: it is rolled back and answered 500, the table is as before
C12_Witness ==
    /\ step = "done"
    /\ request.op = "crear"
    /\ Made("execute", TRUE) # {}
    /\ Made("fetch", FALSE) # {}
    /\ Made("rollback", TRUE) # {}
    /\ response.status = 500
    /\ productos = before
    /\ \A r \in productos : r.id < productos_id_seq

====
